---- MODULE Spec2Model ----
(***************************************************************************)
(* Signaling orchestrator of the VideoCall component                       *)
(* (src/src/components/VideoCall.tsx, lines 384-872): room membership,     *)
(* per-peer RTCPeerConnection negotiation over the Firestore collections   *)
(* participants / offers / answers / candidates, and teardown.             *)
(*                                                                         *)
(* Every client runs one VideoCall component.  JavaScript runs each        *)
(* callback to its first await without interruption, so one action is one  *)
(* such run: a listener callback up to its awaits, or the continuation of  *)
(* an awaited engine / store operation up to the next await.               *)
(***************************************************************************)
EXTENDS Integers, Sequences, FiniteSets, TLC

\* The client ids of the scenarios of the specification (a1, b9, c5).
Clients == {"a1", "b9", "c5"}

\* The two clients of the pairwise negotiation scenarios.
Pair == {"a1", "b9"}

\* Bounds of the model.
MaxCandidates == 3   \* ICE candidates the engines gather in all
MaxFailures == 1     \* failed/disconnected reports of the engine
MaxRedeliver == 1    \* records the store delivers a second time
MaxLeaves == 1       \* uses of the Leave Room button
MaxGens == 4         \* connections one client creates for one peer
MaxRejects == 1      \* descriptions the engine rejects on an open connection
MaxMessages == 2     \* application messages sent in all
MaxTornCandidates == 1  \* ICE candidates gathered in the teardown and mesh scenarios

VARIABLES
  phase,            \* per client: position of initRoom/joinRoom ("init", "retry",
                    \* "nomedia", "abandoned", "joined") or "unmounted"
  localStream,      \* per client: the stream handed to joinRoom ("none": no stream)
  roomParticipants, \* store: ids of the participant records of the room
  snapshot,         \* per client: ids in the last delivered membership snapshot
  peerConnections,  \* per client: peerConnections.current, peerId -> generation (0: absent)
  pcs,              \* <<owner, peer>> -> sequence of every RTCPeerConnection created
  remoteStreams,    \* per client: keys of the remoteStreams map
  offers,           \* store: Offer records
  answers,          \* store: Answer records
  candidates,       \* store: IceCandidate records
  seenOffers,       \* per client: Offer records the offer listener has delivered
  tasks,            \* asynchronous operations in flight
  redelivered,      \* number of redeliveries so far
  leaves,           \* number of Leave Room clicks so far
  dataChannels,     \* per client: peerId -> state of the data channel of the session
  timeline,         \* per client: the local message timeline
  wire              \* application messages handed to a data channel, not yet received

\* The state of the message bus.
bus == <<dataChannels, timeline, wire>>

vars == <<phase, localStream, roomParticipants, snapshot, peerConnections, pcs,
          remoteStreams, offers, answers, candidates, seenOffers, tasks, redelivered,
          leaves, dataChannels, timeline, wire>>

----------------------------------------------------------------------------
\* Records of the store.  An Offer is <<from, to, g, 0>> with g the generation
\* of the sender's connection; an Answer is <<from, to, g, k>> with k the
\* generation of the Offer it answers; a candidate is <<from, to, g, k>> with
\* k its number among the candidates the connection gathered.
Doc(from, to, g, k) == [from |-> from, to |-> to, g |-> g, k |-> k]

NoDoc == Doc("a1", "a1", 0, 0)

\* A new RTCPeerConnection and the closure state of its listeners.
\* offerG: generation of the Offer whose delivery constructed it (0: membership);
\* remoteSets: successful setRemoteDescription calls; applied: the calls of
\* addIceCandidate, each with the remoteDescription it found and whether the
\* connection was closed (a closed connection rejects the call); arrived: the
\* records the candidate listener delivered, in order; gathered: candidates
\* the connection reported to onicecandidate; rejected: the engine rejected
\* a description while the connection was open.
NewPc(shouldInitiate, offerG) ==
  [closed |-> FALSE,
   shouldInitiate |-> shouldInitiate,
   offerG |-> offerG,
   localDescription |-> "none",
   remoteDescription |-> FALSE,
   remoteSets |-> 0,
   connectionState |-> "new",
   pendingCandidates |-> <<>>,
   applied |-> <<>>,
   gathered |-> 0,
   seenAnswers |-> {},
   arrived |-> <<>>,
   rejected |-> FALSE]

Range(q) == {q[i] : i \in 1 .. Len(q)}

Task(kind, o, p, g, doc, stage, n) ==
  [kind |-> kind, o |-> o, p |-> p, g |-> g, doc |-> doc, stage |-> stage, n |-> n]

\* The value of `participants` the membership callback reads: the callback is
\* created by the joinRoom of the render that ran the mount effect (deps []),
\* so it keeps reading the initial state, new Set().
ClosureParticipants(c) == {}

\* The `participants` React state after the last setParticipants.
participants(c) == snapshot[c] \ {c}

\* Keys of peerConnections.current.
Sessions(c) == {p \in Clients : peerConnections[c][p] # 0}

Gens(o, p) == 1 .. Len(pcs[<<o, p>>])

PcKeys == {k \in Clients \X Clients \X (1 .. MaxGens) : k[3] \in Gens(k[1], k[2])}

PcOf(o, p, g) == pcs[<<o, p>>][g]

NumGathered ==
  Cardinality({x \in PcKeys \X (1 .. MaxCandidates) : x[2] <= PcOf(x[1][1], x[1][2], x[1][3]).gathered})

NumRejected ==
  Cardinality({k \in PcKeys : PcOf(k[1], k[2], k[3]).rejected})

NumFailed ==
  Cardinality({k \in PcKeys : PcOf(k[1], k[2], k[3]).connectionState = "failed"})

----------------------------------------------------------------------------
Init ==
  /\ phase = [c \in Clients |-> "init"]
  /\ localStream = [c \in Clients |-> "none"]
  /\ roomParticipants = {}
  /\ snapshot = [c \in Clients |-> {}]
  /\ peerConnections = [c \in Clients |-> [p \in Clients |-> 0]]
  /\ pcs = [k \in Clients \X Clients |-> <<>>]
  /\ remoteStreams = [c \in Clients |-> {}]
  /\ offers = {}
  /\ answers = {}
  /\ candidates = {}
  /\ seenOffers = [c \in Clients |-> {}]
  /\ tasks = {}
  /\ redelivered = 0
  /\ leaves = 0
  /\ dataChannels = [c \in Clients |-> [p \in Clients |-> "none"]]
  /\ timeline = [c \in Clients |-> <<>>]
  /\ wire = {}

----------------------------------------------------------------------------
\* cleanupPeerConnection that deletes the entries without closing them.
cleanupPeerConnectionNoClose(c, P, pcsV, tableV, streamsV) ==
  [pcs |-> pcsV,
   table |-> [tableV EXCEPT ![c] = [p \in Clients |-> IF p \in P THEN 0 ELSE @[p]]],
   streams |-> [streamsV EXCEPT ![c] = @ \ P]]

\* cleanupPeerConnection that replaces the remoteStreams map by an empty one.
cleanupPeerConnectionDropsStreams(c, P, pcsV, tableV, streamsV) ==
  [pcs |-> [k \in DOMAIN pcsV |->
              IF k[1] = c /\ k[2] \in P /\ tableV[c][k[2]] # 0
              THEN [pcsV[k] EXCEPT ![tableV[c][k[2]]].closed = TRUE]
              ELSE pcsV[k]],
   table |-> [tableV EXCEPT ![c] = [p \in Clients |-> IF p \in P THEN 0 ELSE @[p]]],
   streams |-> [streamsV EXCEPT ![c] = {}]]

\* cleanupPeerConnection that leaves the remoteStreams map as it is.
cleanupPeerConnectionKeepsStreams(c, P, pcsV, tableV, streamsV) ==
  [pcs |-> [k \in DOMAIN pcsV |->
              IF k[1] = c /\ k[2] \in P /\ tableV[c][k[2]] # 0
              THEN [pcsV[k] EXCEPT ![tableV[c][k[2]]].closed = TRUE]
              ELSE pcsV[k]],
   table |-> [tableV EXCEPT ![c] = [p \in Clients |-> IF p \in P THEN 0 ELSE @[p]]],
   streams |-> streamsV]

\* cleanupPeerConnection for every peer of P, on the given values.
cleanupPeerConnection(c, P, pcsV, tableV, streamsV) ==
  [pcs |-> [k \in DOMAIN pcsV |->
              IF k[1] = c /\ k[2] \in P /\ tableV[c][k[2]] # 0
              THEN [pcsV[k] EXCEPT ![tableV[c][k[2]]].closed = TRUE]
              ELSE pcsV[k]],
   table |-> [tableV EXCEPT ![c] = [p \in Clients |-> IF p \in P THEN 0 ELSE @[p]]],
   streams |-> [streamsV EXCEPT ![c] = @ \ P]]

\* The synchronous part of createPeerConnection for every peer of P: a new
\* connection replaces the entry of the table, its answer and candidate
\* listeners are registered, and the rest continues asynchronously.
createPeerConnection(c, P, shouldInitiate, offerG, pcsV, tableV) ==
  [pcs |-> [k \in DOMAIN pcsV |->
              IF k[1] = c /\ k[2] \in P
              THEN Append(pcsV[k], NewPc(shouldInitiate, offerG))
              ELSE pcsV[k]],
   table |-> [tableV EXCEPT ![c] =
                [p \in Clients |-> IF p \in P THEN Len(pcsV[<<c, p>>]) + 1 ELSE @[p]]]]

\* joinRoom(id, stream): the participant record is published, then the
\* membership listener and the offer listener are registered.
joinRoom(c, stream) ==
  /\ phase' = [phase EXCEPT ![c] = "joined"]
  /\ localStream' = [localStream EXCEPT ![c] = stream]
  /\ roomParticipants' = roomParticipants \cup {c}
  /\ UNCHANGED <<bus, snapshot, peerConnections, pcs, remoteStreams, offers, answers,
                 candidates, seenOffers, tasks, redelivered, leaves>>

\* initRoom: getUserMedia(video and audio) resolves and joinRoom runs with
\* the stream.
JoinRoom(c) ==
  /\ phase[c] = "init"
  /\ joinRoom(c, "video")

\* initRoom: getUserMedia(video and audio) rejects; the catch block starts
\* the audio-only attempt.
CaptureFailed(c) ==
  /\ phase[c] = "init"
  /\ phase' = [phase EXCEPT ![c] = "retry"]
  /\ UNCHANGED <<localStream, bus, roomParticipants, snapshot, peerConnections, pcs,
                 remoteStreams, offers, answers, candidates, seenOffers, tasks,
                 redelivered, leaves>>

\* initRoom: getUserMedia(audio) resolves and joinRoom runs with the
\* audio-only stream.
JoinRoomAudio(c) ==
  /\ phase[c] = "retry"
  /\ joinRoom(c, "audio")

\* The inner catch block running joinRoom all the same, without a stream.
JoinRoomNoStream(c) ==
  /\ phase[c] = "retry"
  /\ joinRoom(c, "none")

\* initRoom: getUserMedia(audio) rejects too; the inner catch block alerts
\* and initRoom ends.
CaptureAudioFailed(c) ==
  /\ phase[c] = "retry"
  /\ phase' = [phase EXCEPT ![c] = "nomedia"]
  /\ UNCHANGED <<localStream, bus, roomParticipants, snapshot, peerConnections, pcs,
                 remoteStreams, offers, answers, candidates, seenOffers, tasks,
                 redelivered, leaves>>

\* The stream initRoom has captured when it calls joinRoom.
CapturedStream(c) == IF phase[c] = "init" THEN "video" ELSE "audio"

\* A joinRoom that registers its listeners although the write of the
\* participant record has failed.
JoinRoomFailedSubscribed(c) ==
  /\ phase[c] \in {"init", "retry"}
  /\ phase' = [phase EXCEPT ![c] = "joined"]
  /\ localStream' = [localStream EXCEPT ![c] = CapturedStream(c)]
  /\ UNCHANGED <<bus, roomParticipants, snapshot, peerConnections, pcs, remoteStreams,
                 offers, answers, candidates, seenOffers, tasks, redelivered, leaves>>

\* joinRoom: getDoc, or a setDoc up to the one of the participant record,
\* rejects. The catch block of joinRoom logs the error and joinRoom
\* resolves, so that initRoom neither retries nor registers anything.
JoinRoomFailed(c) ==
  /\ phase[c] \in {"init", "retry"}
  /\ phase' = [phase EXCEPT ![c] = "abandoned"]
  /\ localStream' = [localStream EXCEPT ![c] = CapturedStream(c)]
  /\ UNCHANGED <<bus, roomParticipants, snapshot, peerConnections, pcs, remoteStreams,
                 offers, answers, candidates, seenOffers, tasks, redelivered, leaves>>

\* The join detection without the look-up of the session table.
JoinedPeersUnguarded(c, currentParticipants) ==
  {p \in currentParticipants : p \notin ClosureParticipants(c)}

\* Peers of a membership snapshot for which the callback creates a session.
JoinedPeers(c, currentParticipants) ==
  {p \in currentParticipants :
     p \notin ClosureParticipants(c) /\ peerConnections[c][p] = 0}

\* Peers of a membership snapshot for which the callback tears the session down.
LeftPeers(c, currentParticipants) ==
  {p \in ClosureParticipants(c) : p \notin currentParticipants}

\* The participants onSnapshot callback on the current membership.
ParticipantsSnapshot(c) ==
  /\ phase[c] = "joined"
  /\ snapshot[c] # roomParticipants
  /\ LET currentParticipants == roomParticipants \ {c}
         joined == JoinedPeers(c, currentParticipants)
         left == LeftPeers(c, currentParticipants)
         made == createPeerConnection(c, joined, TRUE, 0, pcs, peerConnections)
         done == cleanupPeerConnection(c, left, made.pcs, made.table, remoteStreams)
     IN /\ pcs' = done.pcs
        /\ peerConnections' = done.table
        /\ remoteStreams' = done.streams
        /\ tasks' = tasks \cup
             {Task("initiate", c, p, made.table[c][p], NoDoc, "offer", 0) : p \in joined}
        /\ snapshot' = [snapshot EXCEPT ![c] = roomParticipants]
  /\ UNCHANGED <<phase, localStream, bus, roomParticipants, offers, answers, candidates, seenOffers,
                 redelivered, leaves>>

\* pc with one field replaced, in the table of all connections.
WithPc(o, p, g, rec) == [pcs EXCEPT ![<<o, p>>][g] = rec]

\* createPeerConnection, initiate branch: createOffer, setLocalDescription and
\* addDoc(offers) of a connection that is still open; a closed connection
\* rejects and the catch block ends the attempt.
InitiateOffer(t) ==
  /\ t \in tasks /\ t.kind = "initiate"
  /\ LET pc == PcOf(t.o, t.p, t.g)
     IN IF pc.closed
        THEN UNCHANGED <<pcs, offers>>
        ELSE /\ pcs' = WithPc(t.o, t.p, t.g, [pc EXCEPT !.localDescription = "offer"])
             /\ offers' = offers \cup {Doc(t.o, t.p, t.g, 0)}
  /\ tasks' = tasks \ {t}
  /\ UNCHANGED <<phase, localStream, bus, roomParticipants, snapshot, peerConnections, remoteStreams,
                 answers, candidates, seenOffers, redelivered, leaves>>

\* The offer listener without the look-up of the session table.
AcceptsOfferUnguarded(c, fromId) == fromId # c

\* The guard of the offer listener without the comparison with clientId.
AcceptsOfferFromSelf(c, fromId) == peerConnections[c][fromId] = 0

\* The guard of the offer listener.
AcceptsOffer(c, fromId) == fromId # c /\ peerConnections[c][fromId] = 0

\* The offer listener on one added record d (n: 0, or the number of the redelivery).
OfferChange(c, d, n) ==
  /\ seenOffers' = [seenOffers EXCEPT ![c] = @ \cup {d}]
  /\ IF AcceptsOffer(c, d.from)
     THEN LET made == createPeerConnection(c, {d.from}, FALSE, d.g, pcs, peerConnections)
          IN /\ pcs' = made.pcs
             /\ peerConnections' = made.table
             /\ tasks' = tasks \cup
                  {Task("offer", c, d.from, made.table[c][d.from], d, "srd", n)}
     ELSE UNCHANGED <<pcs, peerConnections, tasks>>
  /\ UNCHANGED <<phase, localStream, bus, roomParticipants, snapshot, remoteStreams, offers, answers,
                 candidates, leaves>>

OfferAdded(c) ==
  /\ phase[c] = "joined"
  /\ \E d \in offers :
       /\ d.to = c /\ d \notin seenOffers[c]
       /\ OfferChange(c, d, 0)
  /\ UNCHANGED redelivered

\* An Offer record whose from and to are both the id of client c.
SelfOffer(c) == Doc(c, c, 1, 0)

\* The store receives an Offer record addressed by client c to itself (the
\* program writes none; the offer listener has a guard for it).
StrayOffer(c) ==
  /\ phase[c] = "joined"
  /\ SelfOffer(c) \notin offers \cup seenOffers[c]
  /\ offers' = offers \cup {SelfOffer(c)}
  /\ UNCHANGED <<phase, localStream, bus, roomParticipants, snapshot, peerConnections, pcs,
                 remoteStreams, answers, candidates, seenOffers, tasks, redelivered, leaves>>

OfferRedelivered(c) ==
  /\ phase[c] = "joined"
  /\ redelivered < MaxRedeliver
  /\ redelivered' = redelivered + 1
  /\ \E d \in offers :
       /\ d.to = c /\ d \in seenOffers[c]
       /\ OfferChange(c, d, redelivered + 1)

\* handleIncomingOffer: setRemoteDescription(offer) settles; on success the
\* track event records the remote stream.  A closed connection rejects and the
\* catch block ends the handling with the Offer left in the store.
OfferSetRemote(t) ==
  /\ t \in tasks /\ t.kind = "offer" /\ t.stage = "srd"
  /\ LET pc == PcOf(t.o, t.p, t.g)
     IN IF pc.closed
        THEN /\ tasks' = tasks \ {t}
             /\ UNCHANGED <<pcs, remoteStreams>>
        ELSE /\ pcs' = WithPc(t.o, t.p, t.g,
                         [pc EXCEPT !.remoteDescription = TRUE,
                                    !.remoteSets = @ + 1])
             /\ remoteStreams' = [remoteStreams EXCEPT ![t.o] = @ \cup {t.p}]
             /\ tasks' = (tasks \ {t}) \cup {[t EXCEPT !.stage = "answer"]}
  /\ UNCHANGED <<phase, localStream, bus, roomParticipants, snapshot, peerConnections, offers, answers,
                 candidates, seenOffers, redelivered, leaves>>

\* handleIncomingOffer: createAnswer, setLocalDescription and addDoc(answers).
HandleIncomingOffer(t) ==
  /\ t \in tasks /\ t.kind = "offer" /\ t.stage = "answer"
  /\ LET pc == PcOf(t.o, t.p, t.g)
     IN IF pc.closed
        THEN /\ tasks' = tasks \ {t}
             /\ UNCHANGED <<pcs, answers>>
        ELSE /\ pcs' = WithPc(t.o, t.p, t.g, [pc EXCEPT !.localDescription = "answer"])
             /\ answers' = answers \cup {Doc(t.o, t.p, t.g, t.doc.g)}
             /\ tasks' = (tasks \ {t}) \cup {[t EXCEPT !.stage = "delete"]}
  /\ UNCHANGED <<phase, localStream, bus, roomParticipants, snapshot, peerConnections, remoteStreams,
                 offers, candidates, seenOffers, redelivered, leaves>>

\* handleIncomingOffer: deleteDoc of the consumed Offer.
OfferDeleted(t) ==
  /\ t \in tasks /\ t.kind = "offer" /\ t.stage = "delete"
  /\ offers' = offers \ {t.doc}
  /\ tasks' = tasks \ {t}
  /\ UNCHANGED <<phase, localStream, bus, roomParticipants, snapshot, peerConnections, pcs, remoteStreams,
                 answers, candidates, seenOffers, redelivered, leaves>>

\* The answer listener of connection <<o, p, g>> on one added record d.
AnswerChange(o, p, g, d, n) ==
  LET pc == PcOf(o, p, g)
  IN /\ pcs' = WithPc(o, p, g, [pc EXCEPT !.seenAnswers = @ \cup {d}])
     /\ tasks' = tasks \cup
          {Task("answer", o, p, g, d, IF pc.remoteDescription THEN "delete" ELSE "srd", n)}
     /\ UNCHANGED <<phase, localStream, bus, roomParticipants, snapshot, peerConnections, remoteStreams,
                    offers, answers, candidates, seenOffers, leaves>>

AnswerAdded(o, p) ==
  /\ phase[o] = "joined"
  /\ \E g \in Gens(o, p) : \E d \in answers :
       /\ d.to = o /\ d.from = p /\ d \notin PcOf(o, p, g).seenAnswers
       /\ AnswerChange(o, p, g, d, 0)
  /\ UNCHANGED redelivered

AnswerRedelivered(o, p) ==
  /\ phase[o] = "joined"
  /\ redelivered < MaxRedeliver
  /\ redelivered' = redelivered + 1
  /\ \E g \in Gens(o, p) : \E d \in answers :
       /\ d.to = o /\ d.from = p /\ d \in PcOf(o, p, g).seenAnswers
       /\ AnswerChange(o, p, g, d, redelivered + 1)

\* setRemoteDescription(answer) is accepted by an open connection in the
\* have-local-offer state only.
AcceptsAnswer(pc) ==
  ~pc.closed /\ pc.localDescription = "offer" /\ ~pc.remoteDescription

\* One turn of the flush loop: shift the head of pendingCandidates and pass it
\* to addIceCandidate, or leave the loop and call deleteDoc.
FlushStep(t, pc) ==
  IF pc.pendingCandidates # <<>>
  THEN [pc |-> [pc EXCEPT !.pendingCandidates = Tail(@),
                          !.applied = Append(@, [doc |-> Head(pc.pendingCandidates),
                                                 rd |-> pc.remoteDescription,
                                                 closed |-> pc.closed])],
        task |-> [t EXCEPT !.stage = "flush"]]
  ELSE [pc |-> pc, task |-> [t EXCEPT !.stage = "delete"]]

\* Answer listener: setRemoteDescription settles; on success the flush loop starts.
AnswerSetRemote(t) ==
  /\ t \in tasks /\ t.kind = "answer" /\ t.stage = "srd"
  /\ LET pc == PcOf(t.o, t.p, t.g)
     IN IF AcceptsAnswer(pc)
        THEN LET f == FlushStep(t, [pc EXCEPT !.remoteDescription = TRUE,
                                                 !.remoteSets = @ + 1])
             IN /\ pcs' = WithPc(t.o, t.p, t.g, f.pc)
                /\ remoteStreams' = [remoteStreams EXCEPT ![t.o] = @ \cup {t.p}]
                /\ tasks' = (tasks \ {t}) \cup {f.task}
        ELSE /\ tasks' = tasks \ {t}
             /\ UNCHANGED <<pcs, remoteStreams>>
  /\ UNCHANGED <<phase, localStream, bus, roomParticipants, snapshot, peerConnections, offers, answers,
                 candidates, seenOffers, redelivered, leaves>>

\* Answer listener: an addIceCandidate of the flush loop settles.
FlushNext(t) ==
  /\ t \in tasks /\ t.kind = "answer" /\ t.stage = "flush"
  /\ LET pc == PcOf(t.o, t.p, t.g)
     IN IF pc.closed
        THEN /\ tasks' = tasks \ {t}
             /\ UNCHANGED pcs
        ELSE LET f == FlushStep(t, pc)
             IN /\ pcs' = WithPc(t.o, t.p, t.g, f.pc)
                /\ tasks' = (tasks \ {t}) \cup {f.task}
  /\ UNCHANGED <<phase, localStream, bus, roomParticipants, snapshot, peerConnections, remoteStreams,
                 offers, answers, candidates, seenOffers, redelivered, leaves>>

\* Answer listener: deleteDoc of the Answer.
AnswerDeleted(t) ==
  /\ t \in tasks /\ t.kind = "answer" /\ t.stage = "delete"
  /\ answers' = answers \ {t.doc}
  /\ tasks' = tasks \ {t}
  /\ UNCHANGED <<phase, localStream, bus, roomParticipants, snapshot, peerConnections, pcs, remoteStreams,
                 offers, candidates, seenOffers, redelivered, leaves>>

\* handleIncomingOffer: the engine rejects setRemoteDescription(offer), or
\* createAnswer / setLocalDescription after it, on an open connection; the
\* catch block logs and the handler ends before addDoc and deleteDoc.
OfferRejected(t) ==
  /\ t \in tasks /\ t.kind = "offer" /\ t.stage \in {"srd", "answer"}
  /\ NumRejected < MaxRejects
  /\ LET pc == PcOf(t.o, t.p, t.g)
     IN /\ ~pc.closed
        /\ pcs' = WithPc(t.o, t.p, t.g, [pc EXCEPT !.rejected = TRUE])
  /\ tasks' = tasks \ {t}
  /\ UNCHANGED <<phase, localStream, bus, roomParticipants, snapshot, peerConnections,
                 remoteStreams, offers, answers, candidates, seenOffers, redelivered,
                 leaves>>

\* Answer listener: the engine rejects setRemoteDescription(answer) on an
\* open connection; the catch block logs and the handler ends before deleteDoc.
AnswerRejected(t) ==
  /\ t \in tasks /\ t.kind = "answer" /\ t.stage = "srd"
  /\ NumRejected < MaxRejects
  /\ LET pc == PcOf(t.o, t.p, t.g)
     IN /\ ~pc.closed
        /\ pcs' = WithPc(t.o, t.p, t.g, [pc EXCEPT !.rejected = TRUE])
  /\ tasks' = tasks \ {t}
  /\ UNCHANGED <<phase, localStream, bus, roomParticipants, snapshot, peerConnections,
                 remoteStreams, offers, answers, candidates, seenOffers, redelivered,
                 leaves>>

\* An initiate branch whose catch block tears the session down.
InitiateRejectedTornDown(t) ==
  /\ t \in tasks /\ t.kind = "initiate"
  /\ NumRejected < MaxRejects
  /\ LET pc == PcOf(t.o, t.p, t.g)
         done == cleanupPeerConnection(t.o, {t.p},
                   WithPc(t.o, t.p, t.g, [pc EXCEPT !.rejected = TRUE]),
                   peerConnections, remoteStreams)
     IN /\ ~pc.closed
        /\ pcs' = done.pcs
        /\ peerConnections' = done.table
        /\ remoteStreams' = done.streams
  /\ tasks' = tasks \ {t}
  /\ UNCHANGED <<phase, localStream, bus, roomParticipants, snapshot, offers, answers,
                 candidates, seenOffers, redelivered, leaves>>

\* createPeerConnection, initiate branch: the engine rejects createOffer or
\* setLocalDescription on an open connection; the catch block logs and the
\* branch ends before addDoc.
InitiateRejected(t) ==
  /\ t \in tasks /\ t.kind = "initiate"
  /\ NumRejected < MaxRejects
  /\ LET pc == PcOf(t.o, t.p, t.g)
     IN /\ ~pc.closed
        /\ pcs' = WithPc(t.o, t.p, t.g, [pc EXCEPT !.rejected = TRUE])
  /\ tasks' = tasks \ {t}
  /\ UNCHANGED <<phase, localStream, bus, roomParticipants, snapshot, peerConnections,
                 remoteStreams, offers, answers, candidates, seenOffers, redelivered,
                 leaves>>

\* pc.onconnectionstatechange with state connected: both ends hold both descriptions.
EngineConnected(o, p, g) ==
  /\ g \in Gens(o, p)
  /\ LET pc == PcOf(o, p, g)
     IN /\ ~pc.closed /\ pc.connectionState = "new"
        /\ pc.localDescription # "none" /\ pc.remoteDescription
        /\ \E h \in Gens(p, o) :
             LET far == PcOf(p, o, h)
             IN ~far.closed /\ far.localDescription # "none" /\ far.remoteDescription
        /\ pcs' = WithPc(o, p, g, [pc EXCEPT !.connectionState = "connected"])
  /\ UNCHANGED <<phase, localStream, bus, roomParticipants, snapshot, peerConnections, remoteStreams,
                 offers, answers, candidates, seenOffers, tasks, redelivered, leaves>>

\* pc.onconnectionstatechange with state failed or disconnected.
EngineFailed(o, p, g) ==
  /\ g \in Gens(o, p)
  /\ NumFailed < MaxFailures
  /\ LET pc == PcOf(o, p, g)
     IN /\ ~pc.closed
        /\ pc.localDescription # "none" /\ pc.remoteDescription
        /\ LET done == cleanupPeerConnection(o, {p},
                         WithPc(o, p, g, [pc EXCEPT !.connectionState = "failed"]),
                         peerConnections, remoteStreams)
           IN /\ pcs' = done.pcs
              /\ peerConnections' = done.table
              /\ remoteStreams' = done.streams
  /\ UNCHANGED <<phase, localStream, bus, roomParticipants, snapshot, offers, answers, candidates,
                 seenOffers, tasks, redelivered, leaves>>

\* The Leave Room button: leaveRoom deletes the local participant record.
LeaveRoom(c) ==
  /\ phase[c] = "joined"
  /\ c \in roomParticipants
  /\ leaves < MaxLeaves
  /\ leaves' = leaves + 1
  /\ roomParticipants' = roomParticipants \ {c}
  /\ UNCHANGED <<phase, localStream, bus, snapshot, peerConnections, pcs, remoteStreams, offers, answers,
                 candidates, seenOffers, tasks, redelivered>>

\* The roomId the cleanup of the mount effect reads through leaveRoom: the
\* effect has deps [], so its cleanup calls the leaveRoom of the first
\* render, where the roomId state is still "".
ClosureRoomId(c) == ""

\* Component teardown, the cleanup of the mount effect: every connection of
\* the table is closed, the table is emptied, every registered listener is
\* cancelled, and leaveRoom runs with the roomId of the first render.
Unmount(c) ==
  /\ phase[c] = "joined"
  /\ phase' = [phase EXCEPT ![c] = "unmounted"]
  /\ pcs' = [k \in DOMAIN pcs |->
               IF k[1] = c /\ peerConnections[c][k[2]] # 0
               THEN [pcs[k] EXCEPT ![peerConnections[c][k[2]]].closed = TRUE]
               ELSE pcs[k]]
  /\ peerConnections' = [peerConnections EXCEPT ![c] = [p \in Clients |-> 0]]
  /\ roomParticipants' =
       IF ClosureRoomId(c) # "" THEN roomParticipants \ {c} ELSE roomParticipants
  /\ UNCHANGED <<localStream, bus, snapshot, remoteStreams, offers, answers, candidates,
                 seenOffers, tasks, redelivered, leaves>>

\* pc.onicecandidate with a candidate: addDoc(candidates).
LocalIceCandidate(o, p, g) ==
  /\ g \in Gens(o, p)
  /\ LET pc == PcOf(o, p, g)
     IN /\ ~pc.closed /\ pc.localDescription # "none"
        /\ NumGathered < MaxCandidates
        /\ pcs' = WithPc(o, p, g, [pc EXCEPT !.gathered = @ + 1])
        /\ candidates' = candidates \cup {Doc(o, p, g, pc.gathered + 1)}
  /\ UNCHANGED <<phase, localStream, bus, roomParticipants, snapshot, peerConnections, remoteStreams,
                 offers, answers, seenOffers, tasks, redelivered, leaves>>

\* The candidate listener applying every candidate at once.
AppliesNowAlways(pc) == TRUE

\* The branch of the candidate listener: apply now or queue.
AppliesNow(pc) == pc.remoteDescription

\* The candidate listener of connection <<o, p, g>> on one added record d.
CandidateChange(o, p, g, d) ==
  LET pc == PcOf(o, p, g)
      seen == [pc EXCEPT !.arrived = Append(@, d)]
  IN /\ IF AppliesNow(pc)
        THEN /\ pcs' = WithPc(o, p, g,
                         [seen EXCEPT !.applied =
                            Append(@, [doc |-> d, rd |-> pc.remoteDescription,
                                       closed |-> pc.closed])])
             /\ tasks' = tasks \cup {Task("candidate", o, p, g, d, "apply", 0)}
        ELSE /\ pcs' = WithPc(o, p, g,
                         [seen EXCEPT !.pendingCandidates = Append(@, d)])
             /\ tasks' = tasks \cup {Task("candidate", o, p, g, d, "delete", 0)}
     /\ UNCHANGED <<phase, localStream, bus, roomParticipants, snapshot, peerConnections, remoteStreams,
                    offers, answers, candidates, seenOffers, redelivered, leaves>>

\* A candidate listener whose query has no filter on the sender.
CandidateAddedUnfiltered(o, p) ==
  /\ phase[o] = "joined"
  /\ \E g \in Gens(o, p) : \E d \in candidates :
       /\ d.to = o /\ d \notin Range(PcOf(o, p, g).arrived)
       /\ CandidateChange(o, p, g, d)

CandidateAdded(o, p) ==
  /\ phase[o] = "joined"
  /\ \E g \in Gens(o, p) : \E d \in candidates :
       /\ d.to = o /\ d.from = p /\ d \notin Range(PcOf(o, p, g).arrived)
       /\ CandidateChange(o, p, g, d)

\* Candidate listener: the awaited addIceCandidate settles (a closed connection
\* rejects and the record stays), then deleteDoc of the record.
CandidateDeleted(t) ==
  /\ t \in tasks /\ t.kind = "candidate"
  /\ IF t.stage = "apply" /\ PcOf(t.o, t.p, t.g).closed
     THEN UNCHANGED candidates
     ELSE candidates' = candidates \ {t.doc}
  /\ tasks' = tasks \ {t}
  /\ UNCHANGED <<phase, localStream, bus, roomParticipants, snapshot, peerConnections, pcs, remoteStreams,
                 offers, answers, seenOffers, redelivered, leaves>>

----------------------------------------------------------------------------
\* MessageBus.  The positions of a timeline that hold a message of its owner.
OwnMessages(c) == {i \in 1 .. Len(timeline[c]) : timeline[c][i].from = c}

NumSent ==
  Cardinality({x \in Clients \X (1 .. MaxMessages) : x[2] <= Cardinality(OwnMessages(x[1]))})

\* A send that hands the message to every session, open or not.
RecipientsAll(c) == Sessions(c)

\* The sessions of c a message is transmitted to: those whose data channel
\* is open.
Recipients(c) == {p \in Sessions(c) : dataChannels[c][p] = "open"}

\* The engine reports the data channel of a connected session open.
ChannelOpen(c, p) ==
  /\ peerConnections[c][p] # 0
  /\ PcOf(c, p, peerConnections[c][p]).connectionState = "connected"
  /\ dataChannels[c][p] = "none"
  /\ dataChannels' = [dataChannels EXCEPT ![c][p] = "open"]
  /\ UNCHANGED <<phase, localStream, roomParticipants, snapshot, peerConnections, pcs,
                 remoteStreams, offers, answers, candidates, seenOffers, tasks,
                 redelivered, leaves, timeline, wire>>

\* send(kind, payload): local echo, then transmission over the open channels.
\* The message carries its sender, a unique id and, for the properties, the
\* sessions and the open channels the sender had when it sent it.
Send(c) ==
  /\ phase[c] = "joined"
  /\ NumSent < MaxMessages
  /\ LET msg == [from |-> c, id |-> Cardinality(OwnMessages(c)) + 1,
                 sessions |-> Sessions(c),
                 open |-> {p \in Sessions(c) : dataChannels[c][p] = "open"}]
     IN /\ timeline' = [timeline EXCEPT ![c] = Append(@, msg)]
        /\ wire' = wire \cup {[to |-> p, msg |-> msg] : p \in Recipients(c)}
  /\ UNCHANGED <<phase, localStream, roomParticipants, snapshot, peerConnections, pcs,
                 remoteStreams, offers, answers, candidates, seenOffers, tasks,
                 redelivered, leaves, dataChannels>>

\* onDataChannelMessage: an inbound message is appended to the local timeline.
Receive(c) ==
  /\ \E w \in wire :
       /\ w.to = c
       /\ timeline' = [timeline EXCEPT ![c] = Append(@, w.msg)]
       /\ wire' = wire \ {w}
  /\ UNCHANGED <<phase, localStream, roomParticipants, snapshot, peerConnections, pcs,
                 remoteStreams, offers, answers, candidates, seenOffers, tasks,
                 redelivered, leaves, dataChannels>>

----------------------------------------------------------------------------
\* A connected session on both sides of the pair.
Established(a, b) ==
  /\ peerConnections[a][b] # 0 /\ peerConnections[b][a] # 0
  /\ PcOf(a, b, peerConnections[a][b]).connectionState = "connected"
  /\ PcOf(b, a, peerConnections[b][a]).connectionState = "connected"

\* The third client opens the page once the pair is connected (scenario of
\* the specification: c5 joins a room where a1 and b9 are already connected).
LateJoin(c) ==
  /\ c \notin Pair
  /\ \A a \in Pair, b \in Pair : a # b => Established(a, b)
  /\ JoinRoom(c)

\* Membership and offer/answer exchange.
Exchange ==
  \/ \E c \in Clients : ParticipantsSnapshot(c)
  \/ \E c \in Clients : OfferAdded(c)
  \/ \E t \in tasks : InitiateOffer(t)
  \/ \E t \in tasks : OfferSetRemote(t)
  \/ \E t \in tasks : HandleIncomingOffer(t)
  \/ \E t \in tasks : OfferDeleted(t)
  \/ \E t \in tasks : AnswerSetRemote(t)
  \/ \E t \in tasks : AnswerDeleted(t)
  \/ \E o \in Clients, p \in Clients : AnswerAdded(o, p)

\* The engine reports a connected transport.
Connects ==
  \E o \in Clients, p \in Clients, g \in 1 .. MaxGens : EngineConnected(o, p, g)

\* Departure, connection failure and redelivery by the store.
Faults ==
  \/ \E c \in Clients : LeaveRoom(c)
  \/ \E c \in Clients : OfferRedelivered(c)
  \/ \E o \in Clients, p \in Clients : AnswerRedelivered(o, p)
  \/ \E o \in Clients, p \in Clients, g \in 1 .. MaxGens : EngineFailed(o, p, g)

\* Exchange of ICE candidates.
Ice ==
  \/ \E o \in Clients, p \in Clients, g \in 1 .. MaxGens : LocalIceCandidate(o, p, g)
  \/ \E o \in Clients, p \in Clients : CandidateAdded(o, p)
  \/ \E t \in tasks : CandidateDeleted(t)
  \/ \E t \in tasks : FlushNext(t)

\* Two clients: negotiation, departure, failure and redelivery.
Next ==
  \/ \E c \in Pair : JoinRoom(c)
  \/ Exchange
  \/ Connects
  \/ Faults

Spec == Init /\ [][Next]_vars

\* Two clients negotiating, with their ICE candidates.  The connected report
\* of the engine is left out: its handler only logs (lines 594-595).
NextIce ==
  \/ \E c \in Pair : JoinRoom(c)
  \/ Exchange
  \/ Ice

SpecIce == Init /\ [][NextIce]_vars

\* Three clients: the third joins the connected pair.
NextMesh ==
  \/ \E c \in Pair : JoinRoom(c)
  \/ \E c \in Clients : LateJoin(c)
  \/ Exchange
  \/ Connects

SpecMesh == Init /\ [][NextMesh]_vars

\* Two clients: negotiation, the Leave Room button and component teardown.
NextLeave ==
  \/ \E c \in Pair : JoinRoom(c)
  \/ Exchange
  \/ \E c \in Clients : LeaveRoom(c)
  \/ \E c \in Clients : Unmount(c)

SpecLeave == Init /\ [][NextLeave]_vars

\* Two clients negotiating, with few ICE candidates, torn down by a failure
\* report of the engine or by component teardown.
NextTeardown ==
  \/ \E c \in Pair : JoinRoom(c)
  \/ Exchange
  \/ /\ NumGathered < MaxTornCandidates
     /\ \E o \in Clients, p \in Clients, g \in 1 .. MaxGens : LocalIceCandidate(o, p, g)
  \/ \E o \in Clients, p \in Clients : CandidateAdded(o, p)
  \/ \E t \in tasks : CandidateDeleted(t)
  \/ \E t \in tasks : FlushNext(t)
  \/ \E c \in Clients : Unmount(c)
  \/ \E o \in Clients, p \in Clients, g \in 1 .. MaxGens : EngineFailed(o, p, g)

SpecTeardown == Init /\ [][NextTeardown]_vars

\* Two clients negotiating with an engine that rejects descriptions.
NextReject ==
  \/ \E c \in Pair : JoinRoom(c)
  \/ Exchange
  \/ \E t \in tasks : OfferRejected(t)
  \/ \E t \in tasks : AnswerRejected(t)

SpecReject == Init /\ [][NextReject]_vars

\* Two clients whose media capture may fail, then negotiating.
NextMedia ==
  \/ \E c \in Pair : JoinRoom(c)
  \/ \E c \in Pair : CaptureFailed(c)
  \/ \E c \in Pair : JoinRoomAudio(c)
  \/ \E c \in Pair : CaptureAudioFailed(c)
  \/ Exchange
  \/ Connects

SpecMedia == Init /\ [][NextMedia]_vars

\* Two clients negotiating, connecting and exchanging application messages.
NextBus ==
  \/ \E c \in Pair : JoinRoom(c)
  \/ Exchange
  \/ Connects
  \/ \E c \in Clients, p \in Clients : ChannelOpen(c, p)
  \/ \E c \in Clients : Send(c)
  \/ \E c \in Clients : Receive(c)

SpecBus == Init /\ [][NextBus]_vars

\* Every two clients hold a connected session with each other.
FullMesh ==
  \A a \in Clients, b \in Clients : a # b => Established(a, b)

\* Three clients: a connection of the full mesh fails.
NextMeshFail ==
  \/ NextMesh
  \/ /\ FullMesh
     /\ \E o \in Clients, p \in Clients, g \in 1 .. MaxGens : EngineFailed(o, p, g)

SpecMeshFail == Init /\ [][NextMeshFail]_vars

\* Two clients negotiating with an engine that rejects the Offer of the
\* initiate branch, and then leaving by the Leave Room button.
NextInitiate ==
  \/ \E c \in Pair : JoinRoom(c)
  \/ Exchange
  \/ \E t \in tasks : InitiateRejected(t)
  \/ \E c \in Clients : LeaveRoom(c)

SpecInitiate == Init /\ [][NextInitiate]_vars

\* Three clients: once the mesh is connected the engines gather few ICE
\* candidates and the candidate listeners consume them.
NextMeshIce ==
  \/ NextMesh
  \/ /\ FullMesh
     /\ NumGathered < MaxTornCandidates
     /\ \E o \in Clients, p \in Clients, g \in 1 .. MaxGens : LocalIceCandidate(o, p, g)
  \/ \E o \in Clients, p \in Clients : CandidateAdded(o, p)
  \/ \E t \in tasks : CandidateDeleted(t)

SpecMeshIce == Init /\ [][NextMeshIce]_vars

\* Two clients whose capture or whose write of the participant record may
\* fail.
NextJoinFail ==
  \/ NextMedia
  \/ \E c \in Pair : JoinRoomFailed(c)

SpecJoinFail == Init /\ [][NextJoinFail]_vars

\* Two clients and Offer records that carry the id of their addressee as
\* sender.
NextStray ==
  \/ \E c \in Pair : JoinRoom(c)
  \/ Exchange
  \/ \E c \in Pair : StrayOffer(c)

SpecStray == Init /\ [][NextStray]_vars
----------------------------------------------------------------------------
\* Shared vocabulary of the properties.

\* a has published an Offer addressed to b (setLocalDescription(offer) and
\* addDoc(offers) are one step of the initiate branch).
OffersPublished(a, b) ==
  {g \in Gens(a, b) : PcOf(a, b, g).localDescription = "offer"}

\* b has published an Answer addressed to a.
AnswersPublished(b, a) ==
  {g \in Gens(b, a) : PcOf(b, a, g).localDescription = "answer"}

TasksOf(o, p, g) == {t \in tasks : t.o = o /\ t.p = p /\ t.g = g}

\* No handler in flight, no undelivered snapshot or record, no pending report
\* of the engine.
Quiescent ==
  /\ tasks = {}
  /\ \A c \in Clients : phase[c] = "joined" =>
       /\ snapshot[c] = roomParticipants
       /\ \A d \in offers : d.to = c => d \in seenOffers[c]
       /\ \A p \in Clients, g \in 1 .. MaxGens : g \in Gens(c, p) =>
            /\ \A d \in answers :
                 d.to = c /\ d.from = p => d \in PcOf(c, p, g).seenAnswers
            /\ \A d \in candidates :
                 d.to = c /\ d.from = p => d \in Range(PcOf(c, p, g).arrived)
            /\ ~ENABLED EngineConnected(c, p, g)

\* The store and the engine have not failed and nobody has left.
NoFaults == NumFailed = 0 /\ redelivered = 0 /\ leaves = 0

----------------------------------------------------------------------------
\* C1: for every pair of participants exactly one side publishes an Offer,
\* the side with the smaller id, whatever the order of delivery: the two
\* sides never both publish an Offer to each other.
C1_OneOfferingSide ==
  \A a \in Clients, b \in Clients :
    a # b => ~(OffersPublished(a, b) # {} /\ OffersPublished(b, a) # {})

\* C2: every connection that is not closed is the entry of the session table
\* for its peerId, so there is at most one per peerId, and the entry of the
\* table is never a closed connection.
C2_OneOpenConnectionPerPeer ==
  \A o \in Clients, p \in Clients :
    /\ \A g \in Gens(o, p) : ~PcOf(o, p, g).closed => peerConnections[o][p] = g
    /\ peerConnections[o][p] # 0 =>
         /\ peerConnections[o][p] \in Gens(o, p)
         /\ ~PcOf(o, p, peerConnections[o][p]).closed

\* C2 witness: the inbound offer constructed the session, the membership
\* snapshot naming the peer arrived afterwards, and there is one connection.
C2_Witness ==
  \E o \in Clients, p \in Clients :
    /\ Len(pcs[<<o, p>>]) = 1
    /\ peerConnections[o][p] = 1
    /\ PcOf(o, p, 1).offerG # 0
    /\ p \in snapshot[o]

\* C6: at every quiescent point after joins and departures only, the keys of
\* the session table are exactly the remote participants of the latest
\* membership snapshot.
C6_SessionsMatchMembership ==
  (Quiescent /\ NumFailed = 0 /\ redelivered = 0) =>
    \A c \in Clients : phase[c] = "joined" => Sessions(c) = participants(c)

\* C7: when a membership snapshot no longer contains a peer of the previous
\* one, the session for that peer is torn down: connection closed, entry
\* removed, remote stream removed.
C7_DepartureTearsDown ==
  [][\A c \in Clients, x \in Clients :
       (x \in snapshot[c] /\ x # c /\ snapshot'[c] # snapshot[c] /\ x \notin snapshot'[c])
         => /\ peerConnections'[c][x] = 0
            /\ x \notin remoteStreams'[c]
            /\ \A g \in 1 .. Len(pcs'[<<c, x>>]) : pcs'[<<c, x>>][g].closed]_vars

\* C8: a redelivered Offer or Answer never creates a second session for the
\* sender, never publishes a second Answer for the same Offer and never sets
\* the remote description of a session a second time.
C8_RedeliveryIsIdempotent ==
  \A c \in Clients, p \in Clients :
    /\ \A g \in Gens(c, p), h \in Gens(c, p) :
         (PcOf(c, p, g).offerG # 0 /\ PcOf(c, p, g).offerG = PcOf(c, p, h).offerG)
           => g = h
    /\ \A g \in Gens(c, p) : PcOf(c, p, g).remoteSets <= 1

\* C9: with a1 and b9 in the room and no fault, once nothing is left to do a1
\* has published exactly one Offer to b9, b9 exactly one Answer to a1, and both
\* sides are connected.
C9_PairConnects ==
  (Quiescent /\ NoFaults /\ phase["a1"] = "joined" /\ phase["b9"] = "joined") =>
    /\ Cardinality(OffersPublished("a1", "b9")) = 1
    /\ Cardinality(AnswersPublished("b9", "a1")) = 1
    /\ Established("a1", "b9")

----------------------------------------------------------------------------
\* Position of record d in the sequence q (0: absent).
IndexOf(q, d) ==
  IF d \in Range(q) THEN CHOOSE i \in 1 .. Len(q) : q[i] = d ELSE 0

\* Number of addIceCandidate calls of a connection for record d.
TimesApplied(pc, d) ==
  Cardinality({i \in 1 .. Len(pc.applied) : pc.applied[i].doc = d})

\* C3: addIceCandidate is never called on a connection whose remote
\* description is not set, also while an Offer or Answer is being applied.
C3_NoCandidateBeforeRemoteDescription ==
  \A k \in PcKeys :
    \A i \in 1 .. Len(PcOf(k[1], k[2], k[3]).applied) :
      PcOf(k[1], k[2], k[3]).applied[i].rd

\* C3 witness: a candidate arrived while the Answer was being applied and was
\* queued, and another one was applied after the remote description was set.
C3_Witness ==
  \E k \in PcKeys, l \in PcKeys :
    /\ PcOf(k[1], k[2], k[3]).pendingCandidates # <<>>
    /\ \E t \in TasksOf(k[1], k[2], k[3]) : t.stage = "srd"
    /\ PcOf(l[1], l[2], l[3]).applied # <<>>

\* C4: once the remote description of a connection is set and its handlers
\* have finished, every candidate that was delivered to it has been applied
\* exactly once and none is left in the pending queue.
C4_BufferedCandidatesApplied ==
  \A k \in PcKeys :
    LET pc == PcOf(k[1], k[2], k[3])
    IN (pc.remoteDescription /\ TasksOf(k[1], k[2], k[3]) = {}) =>
         /\ pc.pendingCandidates = <<>>
         /\ \A d \in Range(pc.arrived) : TimesApplied(pc, d) = 1

\* C5: the candidates of one peer are applied in the order of their arrival.
C5_AppliedInArrivalOrder ==
  \A k \in PcKeys :
    LET pc == PcOf(k[1], k[2], k[3])
    IN \A i \in 1 .. Len(pc.applied), j \in 1 .. Len(pc.applied) :
         i < j => IndexOf(pc.arrived, pc.applied[i].doc)
                    <= IndexOf(pc.arrived, pc.applied[j].doc)

\* C10: c5 joining the connected pair creates one session per peer on every
\* side and leaves the session between a1 and b9 as it is: same connection,
\* still open, no further Offer or Answer between the two.
C10_PairView ==
  <<peerConnections["a1"]["b9"], peerConnections["b9"]["a1"],
    Len(pcs[<<"a1", "b9">>]), Len(pcs[<<"b9", "a1">>]),
    OffersPublished("a1", "b9"), OffersPublished("b9", "a1"),
    AnswersPublished("a1", "b9"), AnswersPublished("b9", "a1"),
    {k \in PcKeys : k[1] \in Pair /\ k[2] \in Pair /\ PcOf(k[1], k[2], k[3]).closed}>>

C10_ThirdJoinLeavesPairAlone ==
  /\ [][Established("a1", "b9") => C10_PairView' = C10_PairView]_vars
  /\ [](\A c \in Clients : Len(pcs[<<"c5", c>>]) <= 1 /\ Len(pcs[<<c, "c5">>]) <= 1)
  /\ []((Quiescent /\ phase["c5"] = "joined") =>
          /\ Sessions("c5") = Pair
          /\ "c5" \in Sessions("a1") /\ "c5" \in Sessions("b9"))

\* C10 witness: c5 has its two sessions, a1 and b9 each have one with c5, and
\* the pair is still connected.
C10_Witness ==
  /\ Quiescent
  /\ Sessions("c5") = Pair
  /\ "c5" \in Sessions("a1") /\ "c5" \in Sessions("b9")
  /\ Established("a1", "b9")
----------------------------------------------------------------------------
\* The listeners of client c are registered and not cancelled.
Subscribed(c) == phase[c] = "joined"

\* Every connection client c has created is closed.
AllClosed(c) ==
  \A k \in PcKeys : k[1] = c => PcOf(k[1], k[2], k[3]).closed

\* C11: leaving the room, by the Leave Room button or by component teardown,
\* removes the local participant record, closes every session, empties the
\* session table and cancels every subscription.
C11_LeavingReleasesEverything ==
  [][\A c \in Clients :
       \/ (c \in roomParticipants /\ c \notin roomParticipants')
       \/ (phase[c] = "joined" /\ phase'[c] = "unmounted")
       => /\ c \notin roomParticipants'
          /\ Sessions(c)' = {}
          /\ AllClosed(c)'
          /\ ~Subscribed(c)']_vars
\* The engine has reported failed or disconnected for a session of c with x.
HasFailed(c, x) ==
  \E g \in Gens(c, x) : PcOf(c, x, g).connectionState = "failed"

\* C12: after the engine reported failed or disconnected for peer x, client c
\* creates a session for x again only when x newly joins (x was absent from
\* the previous snapshot) or the delivery of an Offer from x constructs it; a
\* snapshot that merely still contains x does not re-create it.
C12_NoSessionAfterFailure ==
  [][\A c \in Clients, x \in Clients :
       (HasFailed(c, x) /\ Len(pcs'[<<c, x>>]) > Len(pcs[<<c, x>>]))
         => \/ x \notin snapshot[c] /\ x \in snapshot'[c]
            \/ pcs'[<<c, x>>][Len(pcs'[<<c, x>>])].offerG # 0]_vars

\* Connection k is not the entry of the session table: it was torn down.
TornDown(k) == peerConnections[k[1]][k[2]] # k[3]

\* C13: once the session of a connection is removed from the table, the
\* operations still in flight for it have no effect: no Offer or Answer of
\* that connection is published, no local or remote description is set on it
\* and every addIceCandidate call on it is rejected.
C13_TornDownSessionIsInert ==
  [][\A k \in PcKeys :
       TornDown(k) =>
         LET pc == PcOf(k[1], k[2], k[3])
             after == pcs'[<<k[1], k[2]>>][k[3]]
         IN /\ after.localDescription = pc.localDescription
            /\ after.remoteDescription = pc.remoteDescription
            /\ after.remoteSets = pc.remoteSets
            /\ \A d \in (offers' \ offers) \cup (answers' \ answers) :
                 ~(d.from = k[1] /\ d.to = k[2] /\ d.g = k[3])
            /\ \A i \in Len(pc.applied) + 1 .. Len(after.applied) :
                 after.applied[i].closed]_vars

\* C13 witness: a candidate was handed to a torn-down connection and
\* rejected, and the initiate branch of another torn-down connection of the
\* same client ended without publishing an Offer.
C13_Witness ==
  \E k \in PcKeys, l \in PcKeys :
    /\ TornDown(k) /\ TornDown(l) /\ k[1] = l[1]
    /\ \E i \in 1 .. Len(PcOf(k[1], k[2], k[3]).applied) :
         PcOf(k[1], k[2], k[3]).applied[i].closed
    /\ PcOf(l[1], l[2], l[3]).shouldInitiate
    /\ PcOf(l[1], l[2], l[3]).localDescription = "none"
    /\ TasksOf(l[1], l[2], l[3]) = {}
\* C14: when the engine rejects an inbound Offer or Answer (or the Answer
\* made for it), the negotiation is aborted and the session is torn down: its
\* entry is removed from the table and its connection is closed.
C14_RejectedSessionTornDown ==
  \A k \in PcKeys :
    PcOf(k[1], k[2], k[3]).rejected =>
      PcOf(k[1], k[2], k[3]).closed /\ TornDown(k)
\* Records of the store that a listener of their addressee has delivered.
DeliveredOffers == {d \in offers : d \in seenOffers[d.to]}

DeliveredAnswers ==
  {d \in answers : \E g \in Gens(d.to, d.from) : d \in PcOf(d.to, d.from, g).seenAnswers}

DeliveredCandidates ==
  {d \in candidates :
     \E g \in Gens(d.to, d.from) : d \in Range(PcOf(d.to, d.from, g).arrived)}

\* C15: with a store that does not fail, every Offer, Answer and candidate
\* that was delivered to its addressee is deleted by the addressee: once the
\* handlers have finished, no delivered record is left in the store.
C15_DeliveredRecordsDeleted ==
  Quiescent =>
    DeliveredOffers = {} /\ DeliveredAnswers = {} /\ DeliveredCandidates = {}
\* Client c has not joined: no participant record, no delivery to a
\* listener, no connection, no stream handed to joinRoom.
NeverJoined(c) ==
  /\ c \notin roomParticipants
  /\ snapshot[c] = {} /\ seenOffers[c] = {}
  /\ Sessions(c) = {}
  /\ \A p \in Clients : pcs[<<c, p>>] = <<>>
  /\ localStream[c] = "none"

\* C16: a client joins with the video and audio stream when the first
\* capture succeeds, with the audio-only stream when the first capture fails
\* and the single retry succeeds, and never when the retry fails too; it joins
\* at most once.
C16_CaptureFallback ==
  /\ [](\A c \in Clients :
         /\ phase[c] \in {"init", "retry", "nomedia"} => NeverJoined(c)
         /\ phase[c] = "joined" => localStream[c] \in {"video", "audio"})
  /\ [][\A c \in Clients :
         /\ (phase[c] # "joined" /\ phase'[c] = "joined") =>
              \/ phase[c] = "init" /\ localStream'[c] = "video"
              \/ phase[c] = "retry" /\ localStream'[c] = "audio"
         /\ phase[c] = "retry" => phase'[c] \in {"retry", "joined", "nomedia"}
         /\ phase[c] = "nomedia" => phase'[c] = "nomedia"
         /\ phase[c] = "joined" =>
              phase'[c] = "joined" /\ localStream'[c] = localStream[c]]_vars

\* C16 witness: a client that joined after the audio-only retry holds a
\* connected session with the audio-only stream.
C16_Witness ==
  \E c \in Clients, p \in Clients :
    /\ localStream[c] = "audio" /\ phase[c] = "joined"
    /\ c # p /\ Established(c, p)
\* The messages client c has sent.
SentBy(c) == {timeline[c][i] : i \in OwnMessages(c)}

\* Message m has reached p or is on its way to p.
TransmittedTo(m, p) ==
  m \in Range(timeline[p]) \/ [to |-> p, msg |-> m] \in wire

\* C17: a sent message is in the timeline of its sender whatever the state
\* of the channels, and it is transmitted to exactly the sessions whose data
\* channel was open when it was sent: a peer whose channel was not open then
\* never receives it.
C17_SendReachesOpenChannelsOnly ==
  /\ \A w \in wire : w.msg \in SentBy(w.msg.from)
  /\ \A c \in Clients, p \in Clients : \A m \in Range(timeline[c]) :
       /\ m \in SentBy(m.from)
       /\ (m.from = c /\ p # c) => (TransmittedTo(m, p) <=> p \in m.open)

\* C17 witness: the sender has a message it sent while the channel of its
\* session with p was not open, p has not received it although the channel
\* is open now, and p has received a later message.
C17_Witness ==
  \E c \in Clients, p \in Clients : \E m \in SentBy(c), n \in SentBy(c) :
    /\ p \in m.sessions /\ p \notin m.open
    /\ dataChannels[c][p] = "open"
    /\ m \notin Range(timeline[p])
    /\ n \in Range(timeline[p])
\* The setRemoteDescription(answer) calls of connection k that have not settled.
AnswersBeingApplied(k) ==
  {t \in TasksOf(k[1], k[2], k[3]) : t.kind = "answer" /\ t.stage = "srd"}

\* C18: the remote description of a connection is set at most once, and
\* when a second Answer is delivered while the first is being applied,
\* setRemoteDescription is called for one of them only.
C18_OneAnswerApplied ==
  \A k \in PcKeys :
    /\ PcOf(k[1], k[2], k[3]).remoteSets <= 1
    /\ Cardinality(AnswersBeingApplied(k)) <= 1
\* C19: cleanupPeerConnection is idempotent.  Invoked a second time in a
\* row, or for a peerId that is absent from the table, it changes neither the
\* table nor a connection, and it never touches the entry or the remote
\* stream of another peer.
C19_TeardownIdempotent ==
  \A c \in Clients, p \in Clients :
    LET once == cleanupPeerConnection(c, {p}, pcs, peerConnections, remoteStreams)
        twice == cleanupPeerConnection(c, {p}, once.pcs, once.table, once.streams)
    IN /\ twice = once
       /\ \A q \in Clients \ {p} :
            /\ once.table[c][q] = peerConnections[c][q]
            /\ q \in once.streams[c] <=> q \in remoteStreams[c]
       /\ \A d \in Clients \ {c} :
            once.table[d] = peerConnections[d] /\ once.streams[d] = remoteStreams[d]
       /\ peerConnections[c][p] = 0 =>
            /\ once.table = peerConnections
            /\ once.pcs = pcs
            /\ once.streams[c] = remoteStreams[c] \ {p}

\* C19 witness: the session of c with p was torn down after a failure, so a
\* further teardown finds p absent, while c holds the session and the remote
\* stream of another peer.
C19_Witness ==
  \E c \in Clients, p \in Clients, q \in Clients :
    /\ HasFailed(c, p) /\ peerConnections[c][p] = 0
    /\ q # p /\ peerConnections[c][q] # 0 /\ q \in remoteStreams[c]
\* C20: the membership callback stores the new snapshot in place of the
\* previous one, so that the next snapshot is diffed against the latest
\* membership: for every snapshot that may come next, the peers the callback
\* takes for departed and for newly joined are those that differ from the
\* snapshot stored last.
C20_DiffAgainstLatestSnapshot ==
  \A c \in Clients : phase[c] = "joined" =>
    \A currentParticipants \in SUBSET (Clients \ {c}) :
      /\ LeftPeers(c, currentParticipants) = participants(c) \ currentParticipants
      /\ {p \in currentParticipants : p \notin ClosureParticipants(c)}
           = currentParticipants \ participants(c)
\* The initiate branch of connection k ended in its catch block.
InitiateFailed(k) ==
  LET pc == PcOf(k[1], k[2], k[3])
  IN pc.shouldInitiate /\ pc.rejected /\ pc.localDescription = "none"

\* C21: when createOffer or setLocalDescription fails on the initiating
\* side, no Offer of that session is published, the attempt is not retried
\* (no initiate branch runs again and no further session is created for the
\* peer) and the session stays in the table, open.
C21_FailedOfferStaysNegotiating ==
  \A k \in PcKeys :
    InitiateFailed(k) =>
      /\ \A d \in offers : ~(d.from = k[1] /\ d.to = k[2] /\ d.g = k[3])
      /\ \A t \in TasksOf(k[1], k[2], k[3]) : t.kind # "initiate"
      /\ peerConnections[k[1]][k[2]] = k[3]
      /\ ~PcOf(k[1], k[2], k[3]).closed
      /\ Len(pcs[<<k[1], k[2]>>]) = k[3]

\* C21 witness: the initiate branch of c for p failed, c then received a
\* later snapshot that still contains p, and nothing is in flight.
C21_Witness ==
  \E k \in PcKeys :
    /\ InitiateFailed(k)
    /\ k[1] \notin roomParticipants
    /\ snapshot[k[1]] = roomParticipants /\ k[2] \in snapshot[k[1]]
    /\ tasks = {}
\* Client c holds an open connection for x that an inbound Offer constructed.
RespondsTo(c, x) ==
  \E g \in Gens(c, x) : PcOf(c, x, g).offerG # 0 /\ ~PcOf(c, x, g).closed

\* C22: a session constructed by the delivery of an Offer of x never
\* publishes an Offer, and while client c holds such a session no Offer of c
\* addressed to x is published, whatever snapshot arrives.
C22_ResponderNeverOffers ==
  /\ [](\A k \in PcKeys :
         PcOf(k[1], k[2], k[3]).offerG # 0 =>
           /\ ~PcOf(k[1], k[2], k[3]).shouldInitiate
           /\ PcOf(k[1], k[2], k[3]).localDescription # "offer"
           /\ \A t \in TasksOf(k[1], k[2], k[3]) : t.kind # "initiate")
  /\ [][\A c \in Clients, x \in Clients :
         RespondsTo(c, x) =>
           /\ OffersPublished(c, x)' = OffersPublished(c, x)
           /\ \A d \in offers' \ offers : ~(d.from = c /\ d.to = x)]_vars

\* C22 witness: c answered the Offer of x with the session the Offer
\* constructed, the snapshot naming x arrived afterwards, nothing is in
\* flight and c has published no Offer to x.
C22_Witness ==
  \E c \in Clients, x \in Clients :
    /\ RespondsTo(c, x)
    /\ AnswersPublished(c, x) # {}
    /\ x \in snapshot[c] /\ snapshot[c] = roomParticipants
    /\ tasks = {}
    /\ OffersPublished(c, x) = {}
\* Record d is addressed by client from to client to.
Addressed(d, from, to) == d.from = from /\ d.to = to

\* The records the listeners and handlers of connection k have taken.
TakenBy(k) ==
  LET pc == PcOf(k[1], k[2], k[3])
  IN pc.seenAnswers \cup Range(pc.arrived) \cup Range(pc.pendingCandidates)
       \cup {pc.applied[i].doc : i \in 1 .. Len(pc.applied)}
       \cup {t.doc : t \in {u \in TasksOf(k[1], k[2], k[3]) : u.kind # "initiate"}}

\* C23: every Offer, Answer and candidate in the store was published by a
\* session of its sender for its addressee, and the connection of client c
\* for peer x takes only records whose from is x and whose to is c.
C23_RecordsAddressedToPeer ==
  /\ \A d \in offers \cup answers \cup candidates :
       /\ d.from # d.to
       /\ d.g \in Gens(d.from, d.to)
  /\ \A d \in offers : PcOf(d.from, d.to, d.g).localDescription = "offer"
  /\ \A d \in answers : PcOf(d.from, d.to, d.g).localDescription = "answer"
  /\ \A d \in candidates : d.k <= PcOf(d.from, d.to, d.g).gathered
  /\ \A k \in PcKeys : \A d \in TakenBy(k) : Addressed(d, k[2], k[1])

\* C23 witness: a1 holds a session with b9 and one with c5, and the
\* connection for c5 has applied a candidate of c5 while the one for b9 has
\* taken an Answer or an Offer of b9.
C23_Witness ==
  \E g \in Gens("a1", "b9"), h \in Gens("a1", "c5") :
    /\ PcOf("a1", "c5", h).applied # <<>>
    /\ PcOf("a1", "b9", g).remoteDescription
    /\ peerConnections["a1"]["b9"] = g /\ peerConnections["a1"]["c5"] = h
\* Client c has no listener registered and no session, and no client holds
\* a session for c or has published a record for c.
Absent(c) ==
  /\ c \notin roomParticipants
  /\ snapshot[c] = {} /\ seenOffers[c] = {}
  /\ \A p \in Clients :
       /\ peerConnections[c][p] = 0 /\ pcs[<<c, p>>] = <<>>
       /\ peerConnections[p][c] = 0 /\ pcs[<<p, c>>] = <<>>
       /\ c \notin snapshot[p]
  /\ \A d \in offers \cup answers \cup candidates : d.from # c /\ d.to # c
  /\ \A t \in tasks : t.o # c

\* C24: a join whose write of the participant record fails is abandoned: the
\* client is never a participant, registers no listener, creates no session,
\* and never tries again; a run of joinRoom that has not published the
\* participant record does not register the listeners.
C24_FailedJoinAbandoned ==
  /\ [](\A c \in Clients : phase[c] = "abandoned" => Absent(c))
  /\ [][\A c \in Clients :
         /\ phase[c] = "abandoned" => phase'[c] = "abandoned"
         /\ (phase[c] # "joined" /\ phase'[c] = "joined") =>
              c \in roomParticipants']_vars

\* C24 witness: the join of a1 failed after its capture succeeded, while b9
\* joined and has received the membership snapshot, which holds b9 alone.
C24_Witness ==
  /\ phase["a1"] = "abandoned" /\ localStream["a1"] = "video"
  /\ phase["b9"] = "joined" /\ snapshot["b9"] = {"b9"}
  /\ tasks = {}
\* C25: the answer listener and the candidate listener of a connection run
\* only while the connection is the entry of the session table: once it is
\* torn down they take no further Answer and no further candidate, neither to
\* apply it nor to buffer it.
C25_ListenersEndWithSession ==
  [][\A k \in PcKeys :
       TornDown(k) =>
         LET pc == PcOf(k[1], k[2], k[3])
             after == pcs'[<<k[1], k[2]>>][k[3]]
         IN /\ after.arrived = pc.arrived
            /\ after.seenAnswers = pc.seenAnswers
            /\ after.pendingCandidates = pc.pendingCandidates
            /\ after.applied = pc.applied]_vars
\* C26: while the component of client c is mounted, every peer that has an
\* entry of c's remoteStreams map has an entry of c's session table, and the
\* stream comes from the connection of that entry.
C26_StreamsWithinSessions ==
  \A c \in Clients :
    phase[c] # "unmounted" =>
      /\ remoteStreams[c] \subseteq Sessions(c)
      /\ \A p \in remoteStreams[c] :
           PcOf(c, p, peerConnections[c][p]).remoteDescription

\* C26 witness: the connection of c for p had delivered the remote stream
\* and was torn down after the engine reported its failure; c has neither a
\* session nor a stream for p, while c still shows the stream of q.
C26_Witness ==
  \E c \in Clients, p \in Clients, q \in Clients :
    /\ phase[c] = "joined" /\ HasFailed(c, p)
    /\ peerConnections[c][p] = 0 /\ p \notin remoteStreams[c]
    /\ q \in remoteStreams[c] /\ q \in Sessions(c)
\* C27: the session table of client c never has an entry for c itself, no
\* connection of c to c is ever created, and c publishes no record addressed
\* to itself: neither the membership snapshot, which holds c's own record, nor
\* an Offer whose from is c makes c create a session.
C27_NoSessionForSelf ==
  \A c \in Clients :
    /\ peerConnections[c][c] = 0
    /\ pcs[<<c, c>>] = <<>>
    /\ c \notin remoteStreams[c]
    /\ \A t \in tasks : ~(t.o = c /\ t.p = c)
    /\ \A d \in offers \cup answers \cup candidates :
         (d.from = c /\ d.to = c) => d = SelfOffer(c) /\ d \in offers

\* C27 witness: the offer listener of a1 has been handed an Offer whose from
\* is a1, after a1 received a membership snapshot holding its own record and
\* created its session for b9.
C27_Witness ==
  /\ SelfOffer("a1") \in seenOffers["a1"]
  /\ "a1" \in snapshot["a1"]
  /\ peerConnections["a1"]["b9"] # 0
====
